---- MODULE Spec2Model ----
(***************************************************************************)
(* A model of the blades federated-learning glue code:                     *)
(*   - blades/adversaries/adversary.py  (Adversary, AdversaryConfig)       *)
(*   - fllib/algorithms/algorithm.py    (Algorithm)                        *)
(* Three specifications share the module: SpecRound (the adversary hooks   *)
(* inside a training round), SpecConfig (AdversaryConfig) and SpecAlg      *)
(* (the Algorithm's config life cycle and step()).                         *)
(***************************************************************************)
EXTENDS Integers, Sequences, FiniteSets, TLC

\* ------------------------------------------------------------------ bounds
\* Number of clients the client manager holds.
NumClients == 3
\* Pseudo-gradients are abstracted to the integers 1..MaxUpdate.
MaxUpdate == 2
\* on_algorithm_start may be called this many times.
MaxStarts == 2
\* Number of training rounds explored.
MaxRounds == 2
\* Values 1..MaxAttr for an attribute the config class does not declare.
MaxAttr == 2
\* Number of AdversaryConfig.build calls explored.
MaxBuilds == 2
\* evaluation_interval ranges over None and 0..MaxInterval.
MaxInterval == 2
\* Number of step() calls explored.
MaxIter == 4

VARIABLES
    \* --- SpecRound
    is_malicious,   \* client id -> Client.is_malicious (objects of the client manager)
    clients,        \* Adversary.clients: the list of owned client objects
    starts,         \* number of on_algorithm_start calls so far
    local_results,  \* algorithm.local_results of the current round
    phase,          \* position inside training_step: "idle", "local", "hooked"
    produced,       \* the results as local training produced them this round
    hookSaw,        \* whether on_local_round_end ran this round, and on how many results
    rounds,         \* number of rounds started so far
    aggregated,     \* what the aggregator last computed, with what it had seen
    ret,            \* outcome of the last get_benign_updates call
    \* --- SpecConfig
    cfg,            \* vars(self) of the AdversaryConfig: attribute name -> value
    heap,           \* dict objects: address -> content
    adv,            \* the adversary build last returned
    advSnap,        \* content of the config's global_config when adv was built
    builds,         \* number of build calls so far
    cfgCall,        \* the last call on the AdversaryConfig, its arguments and result
    \* --- SpecAlg
    life,           \* "new" before Algorithm.__init__, then "ready", or "failed"
    config,         \* Algorithm.config: the config object's frozen flag and attributes
    impl,           \* which training_step and evaluate the class has
    iteration,      \* Trainable.iteration
    stepCalls,      \* number of step() calls so far
    lastStep,       \* what the last step() call did
    lastWrite       \* outcome of the last attribute write on self.config

roundVars == <<is_malicious, clients, starts, local_results, phase, produced,
               hookSaw, rounds, aggregated, ret>>

cfgVars == <<cfg, heap, adv, advSnap, builds, cfgCall>>

algVars == <<life, config, impl, iteration, stepCalls, lastStep, lastWrite>>

vars == <<roundVars, cfgVars, algVars>>

\* ------------------------------------------------------------- SpecRound
ClientIds == 1..NumClients
Updates == 1..MaxUpdate

\* fllib.constants.CLIENT_UPDATE: the key of the pseudo-gradient in a result dict.
CLIENT_UPDATE == "update"

\* A result dict: always an "id"; CLIENT_UPDATE may be missing.
ResultWith(c, u) == [id |-> c, update |-> u]
ResultWithout(c) == [id |-> c]

\* result.get(CLIENT_UPDATE, None) is not None
HasUpdate(result) == CLIENT_UPDATE \in DOMAIN result

\* algorithm.client_manager.get_client_by_id(id).is_malicious
get_client_by_id(flags, id) == flags[id]

\* torch.vstack of 1-D tensors: one row per tensor, in list order.
vstack(updates) == [i \in 1..Len(updates) |-> updates[i]]

RECURSIVE get_benign_loop_mut(_, _, _)
get_benign_loop_mut(results, flags, updates) ==
    IF results = <<>> THEN updates
    ELSE LET result == Head(results)
         IN  get_benign_loop_mut(Tail(results), flags,
                 IF HasUpdate(result)
                 THEN Append(updates, result[CLIENT_UPDATE])
                 ELSE updates)

\* The loop of get_benign_updates over algorithm.local_results.
RECURSIVE get_benign_loop(_, _, _)
get_benign_loop(results, flags, updates) ==
    IF results = <<>> THEN updates
    ELSE LET result == Head(results)
         IN  get_benign_loop(Tail(results), flags,
                 IF HasUpdate(result) /\ ~get_client_by_id(flags, result.id)
                 THEN Append(updates, result[CLIENT_UPDATE])
                 ELSE updates)

NoCall == [outcome |-> "none", rows |-> <<>>]

get_benign_updates_mut(results, flags) ==
    [outcome |-> "returned", rows |-> vstack(get_benign_loop(results, flags, <<>>))]

\* Adversary.get_benign_updates: raises ValueError on an empty list.
get_benign_updates(results, flags) ==
    LET updates == get_benign_loop(results, flags, <<>>)
    IN  IF updates = <<>>
        THEN [outcome |-> "ValueError", rows |-> <<>>]
        ELSE [outcome |-> "returned", rows |-> vstack(updates)]

\* Client.to_malicious(local_training=False): the client becomes malicious.
to_malicious(flags, c) == [flags EXCEPT ![c] = TRUE]

RECURSIVE on_algorithm_start_loop(_, _)
on_algorithm_start_loop(flags, cs) ==
    IF cs = <<>> THEN flags
    ELSE on_algorithm_start_loop(to_malicious(flags, Head(cs)), Tail(cs))

on_algorithm_start_mut(flags, cs) ==
    IF cs = <<>> THEN flags ELSE to_malicious(flags, Head(cs))

\* Adversary.on_algorithm_start: to_malicious on every client of self.clients.
on_algorithm_start(flags, cs) == on_algorithm_start_loop(flags, cs)

on_local_round_end_mut(results) ==
    [i \in 1..Len(results) |-> ResultWithout(results[i].id)]

\* Adversary.on_local_round_end: pass.
on_local_round_end(results) == results

RECURSIVE SumUpdates(_)
SumUpdates(results) ==
    IF results = <<>> THEN 0
    ELSE (IF HasUpdate(Head(results)) THEN Head(results)[CLIENT_UPDATE] ELSE 0)
         + SumUpdates(Tail(results))

Collected(results) == {results[i].id : i \in 1..Len(results)}

HookMayRun_mut(results) == TRUE

\* The hook runs once every client of the round has reported.
HookMayRun(results) == Collected(results) = ClientIds

\* The aggregator reads the results once the hook has processed them.
AggregatorMayRun(ph) == ph = "hooked"

NoAggregate == [value |-> 0, hooked |-> FALSE, round |-> FALSE]
NoHook == [ran |-> FALSE, saw |-> 0]

\* The owned client list handed to the adversary: the first m clients.
OwnedLists == {[i \in 1..m |-> i] : m \in 0..NumClients}

OnAlgorithmStart ==
    /\ phase = "idle"
    /\ starts < MaxStarts
    /\ is_malicious' = on_algorithm_start(is_malicious, clients)
    /\ starts' = starts + 1
    /\ ret' = NoCall
    /\ UNCHANGED <<clients, local_results, phase, produced, hookSaw, rounds,
                   aggregated>>
    /\ UNCHANGED <<cfgVars, algVars>>

\* training_step begins a round: the previous round's results are dropped.
StartRound ==
    /\ phase = "idle"
    /\ starts > 0
    /\ rounds < MaxRounds
    /\ rounds' = rounds + 1
    /\ phase' = "local"
    /\ local_results' = <<>>
    /\ produced' = <<>>
    /\ hookSaw' = NoHook
    /\ aggregated' = NoAggregate
    /\ ret' = NoCall
    /\ UNCHANGED <<is_malicious, clients, starts>>
    /\ UNCHANGED <<cfgVars, algVars>>

\* One client's local result arrives; a result may lack its pseudo-gradient.
CollectResult ==
    /\ phase = "local"
    /\ \E c \in ClientIds \ Collected(local_results) :
       \E r \in {ResultWith(c, u) : u \in Updates} \cup {ResultWithout(c)} :
          /\ local_results' = Append(local_results, r)
          /\ produced' = Append(produced, r)
    /\ ret' = NoCall
    /\ UNCHANGED <<is_malicious, clients, starts, phase, hookSaw, rounds, aggregated>>
    /\ UNCHANGED <<cfgVars, algVars>>

OnLocalRoundEnd ==
    /\ phase = "local"
    /\ HookMayRun(local_results)
    /\ local_results' = on_local_round_end(local_results)
    /\ hookSaw' = [ran |-> TRUE, saw |-> Len(local_results)]
    /\ phase' = "hooked"
    /\ ret' = NoCall
    /\ UNCHANGED <<is_malicious, clients, starts, produced, rounds, aggregated>>
    /\ UNCHANGED <<cfgVars, algVars>>

Aggregate ==
    /\ AggregatorMayRun(phase)
    /\ aggregated' = [value |-> SumUpdates(local_results),
                      hooked |-> (phase = "hooked"), round |-> TRUE]
    /\ phase' = "idle"
    /\ ret' = NoCall
    /\ UNCHANGED <<is_malicious, clients, starts, local_results, produced, hookSaw,
                   rounds>>
    /\ UNCHANGED <<cfgVars, algVars>>

GetBenignUpdates ==
    /\ ret' = get_benign_updates(local_results, is_malicious)
    /\ UNCHANGED <<is_malicious, clients, starts, local_results, phase, produced,
                   hookSaw, rounds, aggregated>>
    /\ UNCHANGED <<cfgVars, algVars>>

\* ------------------------------------------------------------ SpecConfig
\* Python values held by attributes: None, a class, a reference to a dict
\* object, an integer.
None == [kind |-> "none", v |-> 0]
Cls(n) == [kind |-> "cls", v |-> n]
Ref(a) == [kind |-> "ref", v |-> a]
IntVal(i) == [kind |-> "int", v |-> i]

\* Classes: 1 is Adversary, 2 a subclass with the same constructor.
AdversaryClasses == {Cls(1), Cls(2)}
\* Dict objects the caller holds, and the address a deep copy is made at.
UserDicts == {1, 2}
CopyAddr == 3
Addrs == UserDicts \cup {CopyAddr}
\* A dict object's content, abstracted to one of two contents; "free" is an
\* address holding no object.
Contents == {"a", "b"}

AttrNames == {"adversary_class", "global_config", "x"}
AttrValues(k) ==
    CASE k = "adversary_class" -> AdversaryClasses
      [] k = "global_config" -> {None} \cup {Ref(a) : a \in UserDicts}
      [] OTHER -> {IntVal(i) : i \in 1..MaxAttr}

\* The config dicts a caller may pass to update_from_dict.
ConfigDicts ==
    UNION {{d \in [D -> UNION {AttrValues(k) : k \in D}] :
               \A k \in D : d[k] \in AttrValues(k)} : D \in SUBSET AttrNames}

\* AdversaryConfig.__init__(adversary_cls=Adversary, config=...)
AdversaryConfigInit(gc) ==
    [adversary_class |-> Cls(1), global_config |-> gc]

update_from_dict_mut(attrs, config_dict) ==
    [self |-> [k \in DOMAIN attrs |->
                  IF k \in DOMAIN config_dict THEN config_dict[k] ELSE attrs[k]],
     ret |-> "self"]

\* AdversaryConfig.update_from_dict: setattr(self, key, value) for every item;
\* returns self.
update_from_dict(attrs, config_dict) ==
    [self |-> [k \in DOMAIN attrs \cup DOMAIN config_dict |->
                  IF k \in DOMAIN config_dict THEN config_dict[k] ELSE attrs[k]],
     ret |-> "self"]

\* copy.deepcopy of one attribute value: a dict object is copied to a fresh
\* address, anything else (None, a class, an int) is itself.
DeepCopyValue(v) == IF v.kind = "ref" THEN Ref(CopyAddr) ELSE v
DeepCopyHeap(attrs, h) ==
    IF \E k \in DOMAIN attrs : attrs[k].kind = "ref"
    THEN LET k == CHOOSE k \in DOMAIN attrs : attrs[k].kind = "ref"
         IN  [h EXCEPT ![CopyAddr] = h[attrs[k].v]]
    ELSE h

to_dict_mut(attrs, h) == [dict |-> attrs, heap |-> h]

\* AdversaryConfig.to_dict: copy.deepcopy(vars(self)).
to_dict(attrs, h) ==
    [dict |-> [k \in DOMAIN attrs |-> DeepCopyValue(attrs[k])],
     heap |-> DeepCopyHeap(attrs, h)]

\* dict.pop(key): the dict without the key.
Pop(d, key) == [k \in DOMAIN d \ {key} |-> d[k]]

\* Adversary.__init__(clients, global_config=None, malicious_client_cls=None)
\* called with keyword arguments: any other keyword is a TypeError.
AdversaryInit(cls, kwargs) ==
    IF DOMAIN kwargs \subseteq {"clients", "global_config", "malicious_client_cls"}
    THEN [outcome |-> "ok", cls |-> cls, clients |-> kwargs["clients"],
          global_config |-> IF "global_config" \in DOMAIN kwargs
                            THEN kwargs["global_config"] ELSE None]
    ELSE [outcome |-> "TypeError", cls |-> cls, clients |-> <<>>,
          global_config |-> None]

\* from_config(cls, config_dict, clients=clients): cls(**config_dict, clients=clients)
from_config(cls, config_dict, cs) ==
    AdversaryInit(cls, [k \in DOMAIN config_dict \cup {"clients"} |->
                           IF k = "clients" THEN cs ELSE config_dict[k]])

\* AdversaryConfig.build: to_dict, pop the class, instantiate it.
build(attrs, h, cs) ==
    LET copy == to_dict(attrs, h)
        cls == copy.dict["adversary_class"]
        config_dict == Pop(copy.dict, "adversary_class")
    IN  [adv |-> from_config(cls, config_dict, cs), heap |-> copy.heap]

NoAdversary ==
    [outcome |-> "none", cls |-> None, clients |-> <<>>, global_config |-> None]
NoCfgCall == [op |-> "none", dict |-> <<>>, cs |-> <<>>, fresh |-> FALSE, ret |-> "none"]

\* The content a global_config value refers to ("none" for None).
ContentOf(v, h) == IF v.kind = "ref" THEN h[v.v] ELSE "none"

UpdateFromDict ==
    /\ \E d \in ConfigDicts :
          LET r == update_from_dict(cfg, d)
          IN  /\ cfg' = r.self
              /\ cfgCall' = [op |-> "update_from_dict", dict |-> d, cs |-> <<>>,
                             fresh |-> ~(DOMAIN d \subseteq DOMAIN cfg),
                             ret |-> r.ret]
    /\ UNCHANGED <<heap, adv, advSnap, builds>>
    /\ UNCHANGED <<roundVars, algVars>>

\* The caller changes, in place, a dict object it holds.
MutateDict ==
    /\ \E a \in UserDicts : \E c \in Contents \ {heap[a]} :
          heap' = [heap EXCEPT ![a] = c]
    /\ cfgCall' = NoCfgCall
    /\ UNCHANGED <<cfg, adv, advSnap, builds>>
    /\ UNCHANGED <<roundVars, algVars>>

Build ==
    /\ builds < MaxBuilds
    /\ \E cs \in OwnedLists :
          LET r == build(cfg, heap, cs)
          IN  /\ cfgCall' = [op |-> "build", dict |-> <<>>, cs |-> cs,
                             fresh |-> FALSE, ret |-> r.adv.outcome]
              /\ IF r.adv.outcome = "ok"
                 THEN /\ adv' = r.adv
                      /\ heap' = r.heap
                      /\ advSnap' = ContentOf(cfg["global_config"], heap)
                 ELSE UNCHANGED <<adv, heap, advSnap>>
    /\ builds' = builds + 1
    /\ UNCHANGED cfg
    /\ UNCHANGED <<roundVars, algVars>>

NextConfig ==
    \/ UpdateFromDict
    \/ MutateDict
    \/ Build


\* --------------------------------------------------------------- SpecAlg
\* A dict value of the given length (dataset_config).
DictVal(n) == [kind |-> "dict", v |-> n]

Intervals == {None} \cup {IntVal(i) : i \in 0..MaxInterval}
AlgAttrValues(k) ==
    CASE k = "evaluation_interval" -> Intervals
      [] OTHER -> {DictVal(0), DictVal(1)}
AlgAttrNames == {"evaluation_interval", "dataset_config"}

\* Partial config dicts: any subset of the attributes.
PartialConfigDicts ==
    UNION {{d \in [D -> UNION {AlgAttrValues(k) : k \in D}] :
               \A k \in D : d[k] \in AlgAttrValues(k)} : D \in SUBSET AlgAttrNames}

\* AlgorithmConfig(): mutable, no evaluation, no dataset.
DefaultAttrs == [evaluation_interval |-> None, dataset_config |-> DictVal(0)]
\* Algorithm.get_default_config: a new AlgorithmConfig each time.
get_default_config == [frozen |-> FALSE, attrs |-> DefaultAttrs]

\* AlgorithmConfig.update_from_dict: attribute-wise overwrite.
alg_update_from_dict(c, d) ==
    [c EXCEPT !.attrs = [k \in DOMAIN c.attrs \cup DOMAIN d |->
                            IF k \in DOMAIN d THEN d[k] ELSE c.attrs[k]]]

\* AlgorithmConfig.freeze: attribute writes fail from now on.
freeze(c) == [c EXCEPT !.frozen = TRUE]

\* An attribute write on a config object: an error when it is frozen.
setattr(c, k, v) ==
    IF c.frozen THEN [outcome |-> "raised", config |-> c]
    ELSE [outcome |-> "ok", config |-> [c EXCEPT !.attrs[k] = v]]

NoConfig == [frozen |-> FALSE, attrs |-> DefaultAttrs]

\* Algorithm.setup(config): a dict is merged into a new default config, which
\* replaces self.config; then the dataset config must not be empty.
setup(selfConfig, isDict, d) ==
    LET cfg1 == IF isDict THEN alg_update_from_dict(get_default_config, d)
                ELSE selfConfig
    IN  [config |-> cfg1,
         outcome |-> IF cfg1.attrs["dataset_config"].v > 0
                     THEN "ok" ELSE "ValueError"]

\* Algorithm.__init__ up to freeze(): the config argument (None, a dict, or an
\* AlgorithmConfig) becomes a frozen AlgorithmConfig.
init_config(isDict, d) ==
    LET given == IF isDict
                 THEN (IF DOMAIN d = {} THEN get_default_config
                       ELSE alg_update_from_dict(get_default_config, d))
                 ELSE [frozen |-> FALSE, attrs |-> d]
    IN  freeze(given)

\* Python's a % b for a >= 0 and b > 0 (b = 0 raises ZeroDivisionError).
PyMod(a, b) == a % b

EmptyMapping == [k \in {} |-> 0]
\* dict.update
Update(m, e) == [k \in DOMAIN m \cup DOMAIN e |-> IF k \in DOMAIN e THEN e[k] ELSE m[k]]

\* Algorithm.training_step returns {}; an override returns its results.
training_step(im, it) ==
    IF im.training_step = "base" THEN EmptyMapping ELSE [k \in {"loss"} |-> it + 1]

\* Algorithm.evaluate is `pass` and returns None; an override returns metrics.
EvaluateReturnsNone(im) == im.evaluate = "base"
evaluate(im, it) == [k \in {"acc"} |-> it + 1]

NoStep == [called |-> FALSE, outcome |-> "none", trace |-> <<>>,
           interval |-> None, results |-> EmptyMapping]

\* Algorithm.step
step(c, it, im) ==
    LET interval == c.attrs["evaluation_interval"]
    IN  IF interval # None /\ interval.v = 0
        THEN [called |-> TRUE, outcome |-> "ZeroDivisionError", trace |-> <<>>,
              interval |-> interval, results |-> EmptyMapping]
        ELSE LET evaluate_this_iter ==
                     interval # None /\ PyMod(it + 1, interval.v) = 0
                 results == training_step(im, it)
             IN  IF ~evaluate_this_iter
                 THEN [called |-> TRUE, outcome |-> "returned",
                       trace |-> <<"training_step">>,
                       interval |-> interval, results |-> results]
                 ELSE IF EvaluateReturnsNone(im)
                 THEN [called |-> TRUE, outcome |-> "TypeError",
                       trace |-> <<"training_step", "evaluate">>,
                       interval |-> interval, results |-> EmptyMapping]
                 ELSE [called |-> TRUE, outcome |-> "returned",
                       trace |-> <<"training_step", "evaluate">>,
                       interval |-> interval,
                       results |-> Update(results, evaluate(im, it))]

\* Algorithm.__init__: normalise, validate, freeze, then Trainable.__init__
\* stores the config and calls setup with a copy of it.
Construct ==
    /\ life = "new"
    /\ \E isDict \in BOOLEAN :
       \E d \in (IF isDict THEN PartialConfigDicts
                 ELSE {x \in PartialConfigDicts : DOMAIN x = AlgAttrNames}) :
          LET frozenConfig == init_config(isDict, d)
              r == setup(frozenConfig, FALSE, <<>>)
          IN  /\ config' = r.config
              /\ life' = IF r.outcome = "ok" THEN "ready" ELSE "failed"
    /\ UNCHANGED <<impl, iteration, stepCalls, lastStep, lastWrite>>
    /\ UNCHANGED <<roundVars, cfgVars>>

\* setup() called again with an AlgorithmConfig.
SetupWithConfig ==
    /\ life = "ready"
    /\ LET r == setup(config, FALSE, <<>>)
       IN  /\ config' = r.config
           /\ life' = IF r.outcome = "ok" THEN "ready" ELSE "failed"
    /\ lastWrite' = "none"
    /\ UNCHANGED <<impl, iteration, stepCalls, lastStep>>
    /\ UNCHANGED <<roundVars, cfgVars>>

\* setup() called again with a partial config dict.
SetupWithDict ==
    /\ life = "ready"
    /\ \E d \in PartialConfigDicts :
          LET r == setup(config, TRUE, d)
          IN  /\ config' = r.config
              /\ life' = IF r.outcome = "ok" THEN "ready" ELSE "failed"
    /\ lastWrite' = "none"
    /\ UNCHANGED <<impl, iteration, stepCalls, lastStep>>
    /\ UNCHANGED <<roundVars, cfgVars>>

\* The driver calls step(); the runtime increments iteration when it returns,
\* and an exception ends the run.
Step ==
    /\ life = "ready"
    /\ stepCalls < MaxIter
    /\ LET r == step(config, iteration, impl)
       IN  /\ lastStep' = r
           /\ iteration' = IF r.outcome = "returned" THEN iteration + 1 ELSE iteration
           /\ life' = IF r.outcome = "returned" THEN "ready" ELSE "failed"
    /\ stepCalls' = stepCalls + 1
    /\ lastWrite' = "none"
    /\ UNCHANGED <<config, impl>>
    /\ UNCHANGED <<roundVars, cfgVars>>

\* Some code writes an attribute of self.config.
WriteConfigAttr ==
    /\ life = "ready"
    /\ \E k \in AlgAttrNames : \E v \in AlgAttrValues(k) :
          LET r == setattr(config, k, v)
          IN  /\ config' = r.config
              /\ lastWrite' = r.outcome
    /\ UNCHANGED <<life, impl, iteration, stepCalls, lastStep>>
    /\ UNCHANGED <<roundVars, cfgVars>>

NextAlg ==
    \/ Construct
    \/ SetupWithConfig
    \/ SetupWithDict
    \/ Step
    \/ WriteConfigAttr


NextRound ==
    \/ OnAlgorithmStart
    \/ StartRound
    \/ CollectResult
    \/ OnLocalRoundEnd
    \/ Aggregate
    \/ GetBenignUpdates

\* The client manager holds NumClients clients, none malicious; the adversary
\* was built with its owned list; no round has run.
InitRound ==
    /\ is_malicious = [c \in ClientIds |-> FALSE]
    /\ clients \in OwnedLists
    /\ starts = 0
    /\ local_results = <<>>
    /\ phase = "idle"
    /\ produced = <<>>
    /\ hookSaw = NoHook
    /\ rounds = 0
    /\ aggregated = NoAggregate
    /\ ret = NoCall
    /\ cfg = AdversaryConfigInit(None)
    /\ heap = [a \in Addrs |-> IF a \in UserDicts THEN "a" ELSE "free"]
    /\ adv = NoAdversary
    /\ advSnap = "none"
    /\ builds = 0
    /\ cfgCall = NoCfgCall
    /\ life = "new"
    /\ config = NoConfig
    /\ impl = [training_step |-> "base", evaluate |-> "base"]
    /\ iteration = 0
    /\ stepCalls = 0
    /\ lastStep = NoStep
    /\ lastWrite = "none"

SpecRound == InitRound /\ [][NextRound]_vars

\* A freshly constructed AdversaryConfig, its config None or a caller's dict.
InitConfig ==
    /\ is_malicious = [c \in ClientIds |-> FALSE]
    /\ clients = <<>>
    /\ starts = 0
    /\ local_results = <<>>
    /\ phase = "idle"
    /\ produced = <<>>
    /\ hookSaw = NoHook
    /\ rounds = 0
    /\ aggregated = NoAggregate
    /\ ret = NoCall
    /\ cfg \in {AdversaryConfigInit(gc) : gc \in AttrValues("global_config")}
    /\ heap = [a \in Addrs |-> IF a \in UserDicts THEN "a" ELSE "free"]
    /\ adv = NoAdversary
    /\ advSnap = "none"
    /\ builds = 0
    /\ cfgCall = NoCfgCall
    /\ life = "new"
    /\ config = NoConfig
    /\ impl = [training_step |-> "base", evaluate |-> "base"]
    /\ iteration = 0
    /\ stepCalls = 0
    /\ lastStep = NoStep
    /\ lastWrite = "none"

SpecConfig == InitConfig /\ [][NextConfig]_vars

\* An Algorithm class (the base one or a subclass overriding training_step or
\* evaluate) about to be constructed.
InitAlg ==
    /\ is_malicious = [c \in ClientIds |-> FALSE]
    /\ clients = <<>>
    /\ starts = 0
    /\ local_results = <<>>
    /\ phase = "idle"
    /\ produced = <<>>
    /\ hookSaw = NoHook
    /\ rounds = 0
    /\ aggregated = NoAggregate
    /\ ret = NoCall
    /\ cfg = AdversaryConfigInit(None)
    /\ heap = [a \in Addrs |-> IF a \in UserDicts THEN "a" ELSE "free"]
    /\ adv = NoAdversary
    /\ advSnap = "none"
    /\ builds = 0
    /\ cfgCall = NoCfgCall
    /\ life = "new"
    /\ config = NoConfig
    /\ impl \in [training_step : {"base", "override"}, evaluate : {"base", "override"}]
    /\ iteration = 0
    /\ stepCalls = 0
    /\ lastStep = NoStep
    /\ lastWrite = "none"

SpecAlg == InitAlg /\ [][NextAlg]_vars

\* ------------------------------------------------------ SpecRound: claims
Range(s) == {s[i] : i \in 1..Len(s)}

\* The results of the non-malicious clients, in iteration order.
NonMalicious == SelectSeq(local_results, LAMBDA r : ~is_malicious[r.id])
\* Those of them that carry a pseudo-gradient.
BenignWithUpdate ==
    SelectSeq(local_results, LAMBDA r : HasUpdate(r) /\ ~is_malicious[r.id])
NumMalicious ==
    Cardinality({i \in 1..Len(local_results) : is_malicious[local_results[i].id]})

\* C1 as stated, for a round in which every client has reported and every
\* result carries an update: the call returns a stack of exactly N-M rows,
\* row i the recorded update of the i-th non-malicious client.
C1_Original ==
    (/\ ret.outcome # "none"
     /\ Collected(local_results) = ClientIds
     /\ \A i \in 1..Len(local_results) : HasUpdate(local_results[i])) =>
        /\ ret.outcome = "returned"
        /\ Len(ret.rows) = Len(local_results) - NumMalicious
        /\ \A i \in 1..Len(NonMalicious) :
              /\ HasUpdate(NonMalicious[i])
              /\ ret.rows[i] = NonMalicious[i][CLIENT_UPDATE]

\* C1 (amended): when at least one non-malicious result carries an update,
\* get_benign_updates returns a stack whose row i is the update of the i-th
\* non-malicious result that carries one, in iteration order, and nothing else;
\* that is N-M rows when every non-malicious result carries an update. It
\* returns in no other case.
C1_BenignStack ==
    ret.outcome # "none" =>
        /\ BenignWithUpdate # <<>> => ret.outcome = "returned"
        /\ ret.outcome = "returned" =>
              /\ BenignWithUpdate # <<>>
              /\ Len(ret.rows) = Len(BenignWithUpdate)
              /\ \A i \in 1..Len(BenignWithUpdate) :
                    ret.rows[i] = BenignWithUpdate[i][CLIENT_UPDATE]
              /\ (\A i \in 1..Len(NonMalicious) : HasUpdate(NonMalicious[i]))
                    => Len(ret.rows) = Len(local_results) - NumMalicious

C1_Witness ==
    /\ ret.outcome = "returned"
    /\ Len(ret.rows) >= 2
    /\ Len(local_results) = NumClients
    /\ \E i \in 1..Len(local_results) :
          is_malicious[local_results[i].id] /\ HasUpdate(local_results[i])
    /\ ret.rows[1] # ret.rows[2]

\* C2: with zero benign updates get_benign_updates raises ValueError instead
\* of returning, and the raising call changes neither local_results nor any
\* client's is_malicious flag.
C2_RaisesOnNoBenign ==
    /\ [](ret.outcome # "none" /\ BenignWithUpdate = <<>>
            => ret.outcome = "ValueError")
    /\ [][ret'.outcome = "ValueError"
            => local_results' = local_results /\ is_malicious' = is_malicious]_vars

C2_Witness ==
    /\ ret.outcome = "ValueError"
    /\ Len(local_results) = NumClients
    /\ \A i \in 1..Len(local_results) :
          is_malicious[local_results[i].id] /\ HasUpdate(local_results[i])

\* C3: on_algorithm_start makes every owned client malicious, leaves every
\* other client's flag as it was, and a second call changes no flag.
C3_StartMarksOwned ==
    [][starts' = starts + 1 =>
          /\ \A c \in ClientIds :
                is_malicious'[c] = (is_malicious[c] \/ c \in Range(clients))
          /\ starts >= 1 => is_malicious' = is_malicious]_vars

C3_Witness ==
    /\ starts = 2
    /\ \E c \in ClientIds : is_malicious[c]
    /\ \E c \in ClientIds : ~is_malicious[c]
    /\ Len(clients) >= 2

\* C4: an adversary owning no client changes nothing: no client is malicious,
\* the results the aggregator reads are those local training produced, and the
\* aggregate is the aggregate of those.
C4_NoClientsNoOp ==
    clients = <<>> =>
        /\ \A c \in ClientIds : ~is_malicious[c]
        /\ hookSaw.ran => local_results = produced
        /\ aggregated.round => aggregated.value = SumUpdates(produced)

C4_Witness ==
    /\ clients = <<>>
    /\ starts > 0
    /\ rounds = 2
    /\ hookSaw.ran
    /\ aggregated.round
    /\ aggregated.value > 0

\* C8: the hook runs only on the results of all clients of the round, and the
\* aggregator reads only results the hook has processed.
C8_HookBetween ==
    /\ hookSaw.ran => hookSaw.saw = NumClients /\ Collected(local_results) = ClientIds
    /\ aggregated.round => aggregated.hooked /\ hookSaw.ran

C8_Witness ==
    /\ aggregated.round
    /\ hookSaw.ran
    /\ rounds = 2

\* ----------------------------------------------------- SpecConfig: claims
\* C6: after update_from_dict(d) every key of d reads as d's value, whether or
\* not it was an attribute before; every other attribute keeps its value; the
\* call returns the config object itself.
C6_UpdateFromDict ==
    [][cfgCall'.op = "update_from_dict" =>
          /\ \A k \in DOMAIN cfgCall'.dict :
                k \in DOMAIN cfg' /\ cfg'[k] = cfgCall'.dict[k]
          /\ \A k \in DOMAIN cfg \ DOMAIN cfgCall'.dict :
                k \in DOMAIN cfg' /\ cfg'[k] = cfg[k]
          /\ cfgCall'.ret = "self"]_vars

C6_Witness ==
    /\ cfgCall.op = "update_from_dict"
    /\ cfgCall.fresh
    /\ "x" \in DOMAIN cfgCall.dict
    /\ "global_config" \notin DOMAIN cfgCall.dict
    /\ cfg["x"] = IntVal(2)
    /\ cfg["global_config"] # None

\* C10: a build that returns hands the adversary the client list passed in
\* and the configured class, gives it a global config equal to the config's at
\* that moment which no later change to the AdversaryConfig or to the dict it
\* refers to affects, and leaves the AdversaryConfig as it was, adversary_class
\* included.
C10_BuildSnapshot ==
    /\ [](adv.outcome = "ok" => ContentOf(adv.global_config, heap) = advSnap)
    /\ [][builds' = builds + 1 =>
             /\ cfg' = cfg
             /\ "adversary_class" \in DOMAIN cfg'
             /\ cfgCall'.ret = "ok" =>
                   /\ adv'.clients = cfgCall'.cs
                   /\ adv'.cls = cfg["adversary_class"]
                   /\ ContentOf(adv'.global_config, heap')
                         = ContentOf(cfg["global_config"], heap)]_vars

C10_Witness ==
    /\ adv.outcome = "ok"
    /\ builds = 2
    /\ Len(adv.clients) >= 1
    /\ advSnap = "a"
    /\ cfg["global_config"] # None
    /\ ContentOf(cfg["global_config"], heap) = "b"

\* -------------------------------------------------------- SpecAlg: claims
\* C5 as stated: after construction self.config is frozen and no attribute
\* write on it succeeds, whatever setup() and step() calls follow.
C5_Original == life = "ready" => config.frozen /\ lastWrite # "ok"

\* k is a multiple of n.
IsMultiple(k, n) == \E m \in 0..k : k = m * n

StepSchedule ==
    /\ ("evaluate" \in Range(lastStep.trace))
          <=> (lastStep.interval # None /\ IsMultiple(stepCalls, lastStep.interval.v))
    /\ Cardinality({i \in 1..Len(lastStep.trace) :
                       lastStep.trace[i] = "training_step"}) = 1
    /\ lastStep.trace[1] = "training_step"

\* C7 as stated: the k-th step() call invokes evaluate() iff
\* evaluation_interval is not None and k is a multiple of it, and runs
\* training_step() exactly once, before any evaluate().
C7_Original == lastStep.called => StepSchedule

\* The schedule of C7 for every evaluation_interval other than 0.
StepScheduleNonZero ==
    lastStep.called /\ lastStep.interval # IntVal(0) => StepSchedule

\* C9 as stated, for an evaluation_interval other than 0: every step() call
\* returns the mapping of training_step(), updated with evaluate()'s metrics
\* on evaluation iterations.
C9_Original ==
    lastStep.called /\ lastStep.interval # IntVal(0) =>
        /\ lastStep.outcome = "returned"
        /\ lastStep.results
              = IF "evaluate" \in Range(lastStep.trace)
                THEN Update(training_step(impl, iteration - 1),
                            evaluate(impl, iteration - 1))
                ELSE training_step(impl, iteration - 1)

====
